---- MODULE Spec2Model ----
(***************************************************************************)
(* A model of the EyeTracker class of PsychoPyInterface/utils/eye_tracker  *)
(* (construction with fallback to mouse simulation, recording, polling,    *)
(* the Tobii gaze callback, calibration with retries, close).              *)
(*                                                                         *)
(* The devices (iohub server, Tobii SDK, EyeLink, the WebGazer bridge, the *)
(* operator's keyboard) are the environment: every call into them is an    *)
(* input drawn from the set of outcomes the call can have.                 *)
(***************************************************************************)
EXTENDS Integers, Sequences, FiniteSets, TLC

VARIABLES
    phase,            \* "new": not constructed; "ready": __init__ returned; "failed": __init__ raised
    requested,        \* the tracker_type argument of __init__, lower-cased
    init_failed,      \* history: the requested backend's own initialization failed
    init_error,       \* history: the exception __init__ raised to its caller, or "none"
    fallback_entries, \* history: times _fallback_to_mouse was entered during __init__
    tracker_type,     \* self.tracker_type
    tracker,          \* the device object self.tracker refers to
    has_io,           \* hasattr(self, 'io')
    tobii_subscribed, \* _tobii_gaze_callback is subscribed on the Tobii device
    bridge_started,   \* WebGazerBridge.start() has run and stop() has not
    is_recording,     \* self.is_recording
    gaze_data,        \* self.gaze_data
    closed,           \* history: close() has been called
    last_op,          \* history: the operation that made the last step
    last_raised,      \* history: that operation raised to its caller
    last_appended,    \* history: that operation appended to gaze_data
    cal_pc,           \* position inside calibrate(): "idle", "attempt", "prompt_failed", "prompt_error"
    attempt,          \* calibrate()'s loop variable
    cal_attempts,     \* history: backend calibration attempts made by the current calibrate()
    cal_errors,       \* history: of those, the attempts that ended in an exception
    cal_result,       \* what the last calibrate() returned: "none", "true", "false", "raised"
    cal_success,      \* history: an attempt of this calibrate() calibrated and validated successfully
    last_key,         \* history: the key answered at calibrate()'s retry prompt in the last step
    validation_level, \* self.validation_level
    auto_save_interval, \* self.auto_save_interval, in seconds
    cb_pc,            \* the SDK thread inside _tobii_gaze_callback: "idle", "locked"
    last_backup,      \* the gaze_data of the latest backup file written since gaze_data was last reset
    last_due,         \* history: the last step appended a sample with the auto-save interval elapsed
    prev_backup,      \* the gaze_data of the backup file written before that one, since the same reset
    last_sample,      \* history: the sample the callback handled in the last step: "none" (no sample),
                      \*   "no_eye" (no eye valid), "pupil" (a pupil outside the limits), "ok"
    last_write,       \* history: the backup write of the last step: "none", "written", "failed"
    \* The calibration and validation procedures of PsychoPyInterface/Scripts:
    proc,             \* the procedure that runs: "none", "run_calibration", "run_validation", "GazeTracker.calibrate"
    script_pc,        \* where it is: "idle", "calibration", "validation", "finish", "returned", "raised"
    points,           \* its list of targets (calibration_points; validation_points for run_validation)
    validation_points, \* run_calibration's second list of targets
    done_points,      \* the targets of the current loop that have been handled
    all_errors,       \* the per-point errors collected (all_errors, calibration_results["errors"])
    validation_errors, \* run_calibration's validation_errors
    error_sum,        \* run_validation's error_sum
    log_rows,         \* the rows written to the log file
    unmeasured,       \* history: points of the first loop that raised before their error was collected
    results,          \* what the procedure's current run returned (and stored as calibration_data)
    prev_results,     \* the summary of the calibration_data stored by the GazeTracker's previous calibrate()
    analysis,         \* what check_calibration_and_adapt got from analyze_calibration and returned
    \* _initialize_webgazer's wait for the browser client:
    wait_pc,          \* where it is: "idle", "polling" (at the loop's test), "sleeping", "done"
    elapsed,          \* time.time() - start_time, in polling intervals of 0.5 s
    connected,        \* what the bridge's is_connected() answers
    \* The bookkeeping of _tobii_gaze_callback:
    sample_count,     \* self.sample_count
    dropped_samples,  \* self.dropped_samples
    last_valid_gaze,  \* self.last_valid_gaze, as the position of the last kept sample
    last_timestamp,   \* self.last_timestamp
    last_fast,        \* history: the last sample handled moved faster than max_velocity
    \* While calibrate() runs:
    entry_recording,  \* history: is_recording when calibrate() was called
    entry_gaze_data,  \* history: gaze_data when calibrate() was called
    calibration_mode  \* the Tobii device is in calibration mode

tracker_vars == <<phase, requested, init_failed, init_error, fallback_entries, tracker_type, tracker,
          has_io, tobii_subscribed, bridge_started, is_recording, gaze_data, closed,
          last_op, last_raised, last_appended, cal_pc, attempt, cal_attempts,
          cal_errors, cal_result, cal_success, last_key, validation_level,
          auto_save_interval, cb_pc, last_backup, prev_backup, last_due, last_sample, last_write>>

script_vars == <<proc, script_pc, points, validation_points, done_points, all_errors,
                 validation_errors, error_sum, log_rows, unmeasured, results,
                 prev_results, analysis>>

bridge_vars == <<wait_pc, elapsed, connected>>

stats_vars == <<sample_count, dropped_samples, last_valid_gaze, last_timestamp, last_fast>>

entry_vars == <<entry_recording, entry_gaze_data>>

device_vars == <<calibration_mode>>

vars == <<tracker_vars, script_vars, bridge_vars, stats_vars, entry_vars, device_vars>>

(***************************************************************************)
(* Bounds of the model.                                                    *)
(***************************************************************************)
MaxSamples == 2      \* gaze_data is not grown beyond this length
MaxPos == 1          \* pointer / gaze positions are 1..MaxPos
MaxHubCalls == 4     \* outcomes are drawn for this many launchHubServer calls

(***************************************************************************)
(* Program constants.                                                      *)
(***************************************************************************)
SUPPORTED_TRACKERS == {"psychopy", "webgazer", "tobii", "eyelink", "mouse"}

max_attempts == 3

DefaultValidationLevel == "basic"
DefaultAutoSaveInterval == 60      \* seconds

\* pupil diameters, in tenths of a millimetre
\* self.max_velocity, in pixels per unit of device time.
max_velocity == 1000

\* The horizontal distance, in pixels, between two neighbouring positions of
\* Positions once converted to window coordinates.
PixelsPerPosition == 1500

min_pupil_size == 10
max_pupil_size == 90

RequestedKinds == SUPPORTED_TRACKERS \cup {"unsupported"}

Positions == 1..MaxPos

\* A gaze_data entry: the position, and the 'confidence' key that only the
\* Tobii callback writes (0 stands for the key being absent).
Sample(x, confidence) == [x |-> x, confidence |-> confidence]

PolledSample(x) == Sample(x, 0)

(***************************************************************************)
(* The calibration and validation procedures of PsychoPyInterface/Scripts  *)
(* (run_calibration, run_validation, GazeTracker.calibrate).  Coordinates  *)
(* and errors are counted in tenths of a unit.  What a point's handling    *)
(* does (the measurement, the writes to the log) is the environment's.     *)
(***************************************************************************)
\* Callbacks handled while recording (sample_count + dropped_samples).
MaxCallbacks == 2

MaxPoints == 2       \* the procedures are given at most this many targets

error_threshold == 2           \* run_calibration: 0.2
validation_threshold == 2      \* run_validation: 0.2
calibration_threshold == 10    \* GazeTracker: 1.0

avg_error_range == 20          \* "1 - (avg_error / 2.0)"
max_error_range == 40          \* "1 - (max_error / 4.0)"
percent_range == 100           \* "1 - (percent_above / 100.0)"

\* The errors GazeTracker.calibrate's simulated gaze can come out with:
\* none, at the 0.2 threshold, just above it, above GazeTracker's threshold,
\* beyond the range over which the score's components fall to 0.
ErrorValues ==
    {0, error_threshold, error_threshold + 1, calibration_threshold + 2, max_error_range + 5}

\* The nine targets of gaze_tracking.py's own test run.
NinePointGrid ==
    << <<-8, -8>>, <<0, -8>>, <<8, -8>>,
       <<-8, 0>>,  <<0, 0>>,  <<8, 0>>,
       <<-8, 8>>,  <<0, 8>>,  <<8, 8>> >>

\* The errors a point of the nine-point run can come out with: the measured
\* gaze equals the target, or it is off by exactly the threshold.
GridErrors == {0, calibration_threshold}

PointErrors(pts) == IF pts = NinePointGrid THEN GridErrors ELSE ErrorValues

\* The errors a point of run_calibration and run_validation can come out
\* with: just below and just above the 0.2 threshold.
MeasuredErrors == {error_threshold - 1, error_threshold + 1}

Coords == {-5, 0, 5}

Targets == Coords \X Coords

\* The target lists given to GazeTracker.calibrate.
TargetLists == UNION {[1..n -> Targets] : n \in 0..MaxPoints}

\* The configured points of run_calibration and run_validation: the first
\* points of the default validation_points.
ConfigPoints == << <<-4, -4>>, <<4, -4>>, <<-4, 4>>, <<4, 4>> >>

PointLists == {SubSeq(ConfigPoints, 1, n) : n \in 0..MaxPoints}

RECURSIVE SumSeq(_)
SumSeq(errs) == IF errs = <<>> THEN 0 ELSE errs[1] + SumSeq(Tail(errs))

\* A quotient num/den as the pair <<num, den>>; float('nan') and None (no
\* average) as a pair with den 0.
NaN == <<0, 0>>

\* np.mean(errs) if errs else float('nan')
Mean(errs) == IF errs = <<>> THEN NaN ELSE <<SumSeq(errs), Len(errs)>>

\* a <= t for a quotient a and a number t; False for NaN.
RatLeq(a, t) == a[2] > 0 /\ a[1] <= t * a[2]

RatEq(a, b) == a[2] > 0 /\ b[2] > 0 /\ a[1] * b[2] = b[1] * a[2]

Quadrants == {"top_left", "top_right", "bottom_left", "bottom_right"}

quadrant_y_zero_top(tx, ty) ==
    IF tx < 0 /\ ty >= 0 THEN "top_left"
    ELSE IF tx >= 0 /\ ty >= 0 THEN "top_right"
    ELSE IF tx < 0 /\ ty < 0 THEN "bottom_left"
    ELSE "bottom_right"

\* GazeTracker.calibrate's if/elif chain over a target's coordinates.
quadrant(tx, ty) ==
    IF tx < 0 /\ ty > 0 THEN "top_left"
    ELSE IF tx >= 0 /\ ty > 0 THEN "top_right"
    ELSE IF tx < 0 /\ ty <= 0 THEN "bottom_left"
    ELSE "bottom_right"

\* The loop filling quadrant_errors: each point's error is appended to the
\* list of the point's quadrant.
RECURSIVE quadrant_errors(_, _)
quadrant_errors(pts, errs) ==
    IF pts = <<>> THEN [q \in Quadrants |-> <<>>]
    ELSE LET n == Len(pts)
             rest == quadrant_errors(SubSeq(pts, 1, n - 1), SubSeq(errs, 1, n - 1))
         IN  [rest EXCEPT ![quadrant(pts[n][1], pts[n][2])] = Append(@, errs[n])]

\* np.sum(errors_array > self.calibration_threshold)
points_above(errs, threshold) == Len(SelectSeq(errs, LAMBDA e : e > threshold))

RECURSIVE MaxSeq(_)
MaxSeq(errs) ==
    IF Len(errs) = 1 THEN errs[1]
    ELSE LET m == MaxSeq(Tail(errs)) IN IF errs[1] > m THEN errs[1] ELSE m

\* "(points_above_threshold / len(errors_array)) * 100"
percent_above(errs, threshold) ==
    IF errs = <<>> THEN NaN ELSE <<100 * points_above(errs, threshold), Len(errs)>>

RECURSIVE GCD(_, _)
GCD(a, b) == IF b = 0 THEN a ELSE GCD(b, a % b)

\* A quotient in lowest terms.
Lowest(a) ==
    IF a[2] = 0 THEN NaN
    ELSE LET g == GCD(a[1], a[2]) IN <<a[1] \div g, a[2] \div g>>

RatAdd(a, b) ==
    LET x == Lowest(a)
        y == Lowest(b)
    IN  Lowest(<<x[1] * y[2] + y[1] * x[2], x[2] * y[2]>>)

RatLess(a, b) == a[2] > 0 /\ b[2] > 0 /\ a[1] * b[2] < b[1] * a[2]

\* max(0, 1 - a / range) for a quotient a
clamped_component(a, range) ==
    LET left == range * a[2] - a[1]
    IN  <<IF left > 0 THEN left ELSE 0, range * a[2]>>

\* The weights of the three components, in tenths.
score_weights == [avg |-> 5, max |-> 3, percent |-> 2]

score_overweight(avg, mx, pct) ==
    LET a == clamped_component(avg, avg_error_range)
        m == clamped_component(<<mx, 1>>, max_error_range)
        q == clamped_component(pct, percent_range)
    IN  RatAdd(RatAdd(<<5 * a[1], 10 * a[2]>>, <<3 * m[1], 10 * m[2]>>),
               <<3 * q[1], 10 * q[2]>>)

\* self.calibration_score
calibration_score(avg, mx, pct) ==
    LET a == clamped_component(avg, avg_error_range)
        m == clamped_component(<<mx, 1>>, max_error_range)
        q == clamped_component(pct, percent_range)
    IN  RatAdd(RatAdd(<<score_weights.avg * a[1], 10 * a[2]>>,
                      <<score_weights.max * m[1], 10 * m[2]>>),
               <<score_weights.percent * q[1], 10 * q[2]>>)

\* The thresholds of evaluate_calibration_quality, strictest first; errors
\* in tenths, percent_above in percent.
quality_bands ==
    << [tier |-> "excellent", avg |-> 5, max |-> 10, percent_above |-> 5],
       [tier |-> "good", avg |-> 8, max |-> 15, percent_above |-> 15],
       [tier |-> "fair", avg |-> 12, max |-> 20, percent_above |-> 30] >>

meets_band_avg_reversed(band, avg, mx, pct) ==
    ~RatLess(avg, <<band.avg, 1>>) /\ mx <= band.max /\ RatLeq(pct, band.percent_above)

\* One condition of the if/elif chain: all three limits of a band are met.
meets_band(band, avg, mx, pct) ==
    RatLeq(avg, band.avg) /\ mx <= band.max /\ RatLeq(pct, band.percent_above)

\* self.calibration_quality
quality_tier(avg, mx, pct) ==
    IF meets_band(quality_bands[1], avg, mx, pct) THEN "excellent"
    ELSE IF meets_band(quality_bands[2], avg, mx, pct) THEN "good"
    ELSE IF meets_band(quality_bands[3], avg, mx, pct) THEN "fair"
    ELSE "poor"

\* evaluate_calibration_quality on the calibration_data of these errors.
evaluate_calibration_quality(errs, threshold) ==
    LET avg == Mean(errs)
        mx == MaxSeq(errs)
        pct == percent_above(errs, threshold)
    IN  [average |-> avg, max |-> mx, percent_above |-> pct,
         quality |-> quality_tier(avg, mx, pct),
         score |-> calibration_score(avg, mx, pct)]

NoSummary ==
    [average |-> NaN, max |-> 0, percent_above |-> NaN, quality |-> "none", score |-> NaN]

\* What is kept of a calibration_data that a later calibrate() replaces.
Summary(r) ==
    [average |-> r.average, max |-> r.max, percent_above |-> r.percent_above,
     quality |-> r.quality, score |-> r.score]

\* A row of a log file: the header, a data row, a row with ERROR in the
\* gaze columns, the "Average Error" row.
\* cols are the comma-separated fields of the line as they are in the file.
Row(loop, index, kind, cols) == [loop |-> loop, index |-> index, kind |-> kind, cols |-> cols]

\* A field of a line: a number as an f-string writes it, or other text.
Num(n) == [numeric |-> TRUE, text |-> "", value |-> n]

Text(t) == [numeric |-> FALSE, text |-> t, value |-> 0]

ColumnNames ==
    <<Text("PointIndex"), Text("ConfigX"), Text("ConfigY"), Text("GazeX"), Text("GazeY"),
      Text("Error")>>

\* The header of run_validation's and of save_calibration_log's file.
Header == Row("", 0, "header", ColumnNames)

\* The header of run_calibration's file.
CalibrationHeader == Row("", 0, "header", <<Text("Phase")>> \o ColumnNames)

\* The measured gaze of a target whose error came out as e: e above it.
gaze_position(pt, e) == <<pt[1], pt[2] + e>>

\* run_calibration starts each line with the phase.
PhaseField(loop) == IF loop = "" THEN <<>> ELSE <<Text(loop)>>

data_row(loop, i, pt, e) ==
    Row(loop, i, "data",
        PhaseField(loop) \o <<Num(i), Num(pt[1]), Num(pt[2]), Num(gaze_position(pt, e)[1]),
                              Num(gaze_position(pt, e)[2]), Num(e)>>)

\* The line of a point that failed; last is its Error field: NA in
\* run_calibration, the exception's text in run_validation.
error_row(loop, i, pt) ==
    Row(loop, i, "ERROR",
        PhaseField(loop) \o <<Num(i), Num(pt[1]), Num(pt[2]), Text("ERROR"), Text("ERROR"),
                              IF loop = "" THEN Text("str(e)") ELSE Text("NA")>>)

\* "Average Error: {avg_error}"
average_row == Row("", 0, "average", <<Text("Average Error")>>)

\* analyze_calibration's loop over the lines after the header: the sixth
\* field of a line with at least six fields, when float() accepts it.
RECURSIVE parsed_errors(_)
parsed_errors(rows) ==
    IF rows = <<>> THEN <<>>
    ELSE LET parts == rows[1].cols
             rest == parsed_errors(Tail(rows))
         IN  IF Len(parts) < 6 THEN rest
             ELSE IF parts[6].numeric THEN <<parts[6].value>> \o rest
             ELSE rest

NoAnalysis == [status |-> "none", errors |-> <<>>, average |-> NaN, recalibrate |-> FALSE]

\* analyze_calibration on an existing file with these lines.
analyze_calibration(rows) ==
    LET errors == parsed_errors(Tail(rows))
    IN  IF errors = <<>> THEN [NoAnalysis EXCEPT !.status = "None"]
        ELSE [NoAnalysis EXCEPT !.status = "analysed", !.errors = errors,
                                !.average = Mean(errors)]

NoResults ==
    [status |-> "none", success |-> FALSE, average |-> NaN, validation_average |-> NaN,
     quadrant_errors |-> [q \in Quadrants |-> <<>>], points_above_threshold |-> 0,
     max |-> 0, percent_above |-> NaN, quality |-> "none", score |-> NaN]

\* How the handling of one point can go: all of it works; something raises
\* before the error is computed (drawing, the tracker); the data row's write
\* raises; the optional gaze feedback after the data row raises.
PointOutcomes(loop) ==
    IF loop = "Calibration"
    THEN {"ok", "measure_raises", "log_raises", "feedback_raises"}
    ELSE {"ok", "measure_raises", "log_raises"}

calibration_point_always_records(errs, rows, loop, i, pt, outcome, e, handler_ok) ==
    [errors |-> Append(errs, e),
     rows |-> IF outcome = "ok" THEN Append(rows, data_row(loop, i, pt, e))
              ELSE IF handler_ok THEN Append(rows, error_row(loop, i, pt)) ELSE rows,
     raised |-> outcome # "ok" /\ ~handler_ok]

\* One iteration of run_calibration's loops: the try block appends the
\* error and then writes the data row; the except block writes the ERROR
\* row, and what that write raises leaves run_calibration.
calibration_point(errs, rows, loop, i, pt, outcome, e, handler_ok) ==
    LET errs1 == IF outcome # "measure_raises" THEN Append(errs, e) ELSE errs
        rows1 == IF outcome \in {"ok", "feedback_raises"}
                 THEN Append(rows, data_row(loop, i, pt, e)) ELSE rows
    IN  [errors |-> errs1,
         rows |-> IF outcome # "ok" /\ handler_ok
                  THEN Append(rows1, error_row(loop, i, pt)) ELSE rows1,
         raised |-> outcome # "ok" /\ ~handler_ok]

\* One iteration of run_validation's loop: the try block writes the data
\* row and then adds the error to error_sum.
validation_point(sum, rows, i, pt, outcome, e, handler_ok) ==
    [sum |-> IF outcome = "ok" THEN sum + e ELSE sum,
     collected |-> outcome = "ok",
     rows |-> IF outcome = "ok" THEN Append(rows, data_row("", i, pt, e))
              ELSE IF handler_ok THEN Append(rows, error_row("", i, pt)) ELSE rows,
     raised |-> outcome # "ok" /\ ~handler_ok]

\* "avg_error = error_sum / len(validation_points) if validation_points else None"
validation_average(sum, pts, errs) ==
    IF pts # <<>> THEN <<sum, Len(pts)>> ELSE NaN

\* No calibrate() is running.
NoEntry == entry_recording = FALSE /\ entry_gaze_data = <<>>

\* Where run_calibration goes on after k points of a loop.
loop_pc(loop, k, pts, vpts) ==
    IF loop = "Calibration" /\ k < Len(pts) THEN "calibration"
    ELSE IF loop = "Calibration" /\ vpts # <<>> THEN "validation"
    ELSE IF loop = "Validation" /\ k < Len(vpts) THEN "validation"
    ELSE "finish"

ScriptsIdle ==
    /\ proc = "none"
    /\ script_pc = "idle"
    /\ points = <<>>
    /\ validation_points = <<>>
    /\ done_points = 0
    /\ all_errors = <<>>
    /\ validation_errors = <<>>
    /\ error_sum = 0
    /\ log_rows = <<>>
    /\ unmeasured = 0
    /\ results = NoResults
    /\ prev_results = NoSummary
    /\ analysis = NoAnalysis
    /\ wait_pc = "idle"
    /\ elapsed = 0
    /\ connected = FALSE

(***************************************************************************)
(* Construction.  A record c carries the fields __init__ assigns, the      *)
(* number of launchHubServer calls made so far, and exc: an exception is   *)
(* propagating ("none": no exception).  hub[i] is the outcome of the i-th launchHubServer call.   *)
(***************************************************************************)
NewObject(kind) ==
    [tracker_type |-> kind, tracker |-> "none", has_io |-> FALSE,
     tobii_subscribed |-> FALSE, bridge_started |-> FALSE,
     fallback_entries |-> 0, hub_calls |-> 0, exc |-> "none"]

\* self.io = iohub.launchHubServer(...); self.tracker = self.io.devices.<device>
launchHubServer(c, hub, device) ==
    LET n == c.hub_calls + 1 IN
    IF hub[n]
    THEN [c EXCEPT !.hub_calls = n, !.has_io = TRUE, !.tracker = device]
    ELSE [c EXCEPT !.hub_calls = n, !.exc = "Exception"]

\* A fallback that switches tracker_type but keeps the failed device object.
fallback_keeps_tracker(c, hub) ==
    LET c1 == launchHubServer([c EXCEPT !.tracker_type = "mouse", !.exc = "none",
                                        !.fallback_entries = @ + 1], hub, c.tracker)
    IN  IF c1.exc # "none" THEN [c1 EXCEPT !.exc = "RuntimeError"] ELSE c1

\* _fallback_to_mouse: entered with the exception (if any) already caught;
\* raises RuntimeError when launchHubServer fails.
fallback_to_mouse(c, hub) ==
    LET c1 == launchHubServer([c EXCEPT !.tracker_type = "mouse", !.exc = "none",
                                        !.fallback_entries = @ + 1], hub, "mouse")
    IN  IF c1.exc # "none" THEN [c1 EXCEPT !.exc = "RuntimeError"] ELSE c1

initialize_mouse(c, hub) == launchHubServer(c, hub, "mouse")

\* outcome "ok": an eye tracker device is configured; "no_device":
\* io.devices.eyetracker is None; a failed launchHubServer is hub's business.
initialize_psychopy_tracker(c, hub, outcome) ==
    LET c1 == launchHubServer(c, hub, IF outcome = "ok" THEN "eyetracker" ELSE "none")
        c2 == IF c1.exc # "none" \/ c1.tracker # "none" THEN c1
              ELSE fallback_to_mouse(c1, hub)
    IN  IF c2.exc # "none" THEN fallback_to_mouse(c2, hub) ELSE c2

initialize_webgazer(c, hub, outcome) ==
    LET c1 == CASE outcome = "import_fail" -> c
                [] outcome = "start_fail"  -> [c EXCEPT !.tracker = "bridge"]
                [] OTHER -> [c EXCEPT !.tracker = "bridge", !.bridge_started = TRUE]
    IN  IF outcome = "ok" THEN c1 ELSE fallback_to_mouse(c1, hub)

initialize_tobii(c, hub, outcome) ==
    LET c1 == CASE outcome \in {"import_fail", "no_device"} -> c
                [] outcome = "subscribe_fail" -> [c EXCEPT !.tracker = "tobii"]
                [] OTHER -> [c EXCEPT !.tracker = "tobii", !.tobii_subscribed = TRUE]
    IN  IF outcome = "ok" THEN c1 ELSE fallback_to_mouse(c1, hub)

initialize_eyelink(c, hub, outcome) ==
    LET c1 == IF outcome = "import_fail" THEN c ELSE [c EXCEPT !.tracker = "eyelink"]
    IN  IF outcome = "ok" THEN c1 ELSE fallback_to_mouse(c1, hub)

\* The outcomes the requested backend's initialization can have.
InitOutcomes(kind) ==
    CASE kind = "psychopy" -> {"ok", "no_device"}
      [] kind = "webgazer" -> {"ok", "import_fail", "start_fail", "timeout"}
      [] kind = "tobii"    -> {"ok", "import_fail", "no_device", "subscribe_fail",
                               "test_subscribe_fail", "no_data"}
      [] kind = "eyelink"  -> {"ok", "import_fail", "not_connected", "command_fail"}
      [] OTHER -> {"ok"}

initialize_tracker(c, hub, outcome) ==
    CASE c.tracker_type = "psychopy" -> initialize_psychopy_tracker(c, hub, outcome)
      [] c.tracker_type = "webgazer" -> initialize_webgazer(c, hub, outcome)
      [] c.tracker_type = "tobii"    -> initialize_tobii(c, hub, outcome)
      [] c.tracker_type = "eyelink"  -> initialize_eyelink(c, hub, outcome)
      [] c.tracker_type = "mouse"    -> initialize_mouse(c, hub)
      [] OTHER -> [c EXCEPT !.exc = "ValueError"]

\* __init__ without its try/except: what _initialize_tracker raises propagates.
init_without_fallback(c, hub, outcome) == initialize_tracker(c, hub, outcome)

\* __init__ from "Initialize tracker based on type" on: the try/except
\* around _initialize_tracker.
init_with_fallback(c, hub, outcome) ==
    LET c1 == initialize_tracker(c, hub, outcome)
    IN  IF c1.exc # "none" THEN fallback_to_mouse(c1, hub) ELSE c1

\* The requested backend did not come up: its own initialization raised or
\* found no device (the fallback's launchHubServer calls do not count).
BackendInitFails(kind, hub, outcome) ==
    \/ outcome # "ok"
    \/ kind \in {"psychopy", "mouse"} /\ ~hub[1]

HubOutcomes == [1..MaxHubCalls -> BOOLEAN]

\* The validation_level and auto_save_interval arguments ('none' validates
\* like 'basic'; 0 disables auto-save).
ValidationLevels == {"basic", "strict"}

AutoSaveIntervals == {0, DefaultAutoSaveInterval}

\* __init__: the supported-type check (ValueError), the data directory
\* (os.makedirs may raise OSError), then the tracker with its fallback.
construct(kind, mkdir_ok, hub, outcome) ==
    IF kind \notin SUPPORTED_TRACKERS THEN [NewObject(kind) EXCEPT !.exc = "ValueError"]
    ELSE IF ~mkdir_ok THEN [NewObject(kind) EXCEPT !.exc = "OSError"]
    ELSE init_with_fallback(NewObject(kind), hub, outcome)

Init ==
    /\ phase = "new"
    /\ requested = "none"
    /\ init_failed = FALSE
    /\ init_error = "none"
    /\ fallback_entries = 0
    /\ tracker_type = "none"
    /\ tracker = "none"
    /\ has_io = FALSE
    /\ tobii_subscribed = FALSE
    /\ bridge_started = FALSE
    /\ is_recording = FALSE
    /\ gaze_data = <<>>
    /\ closed = FALSE
    /\ last_op = "none"
    /\ last_raised = FALSE
    /\ last_appended = FALSE
    /\ cal_pc = "idle"
    /\ attempt = 0
    /\ cal_attempts = 0
    /\ cal_errors = 0
    /\ cal_result = "none"
    /\ cal_success = FALSE
    /\ last_key = "none"
    /\ validation_level = "basic"
    /\ auto_save_interval = 60
    /\ cb_pc = "idle"
    /\ last_backup = <<>>
    /\ prev_backup = <<>>
    /\ last_due = FALSE
    /\ last_sample = "none"
    /\ last_write = "none"
    /\ last_valid_gaze = 0
    /\ last_timestamp = 0
    /\ sample_count = 0
    /\ dropped_samples = 0
    /\ last_fast = FALSE
    /\ NoEntry
    /\ calibration_mode = FALSE
    /\ ScriptsIdle

\* What __init__ leaves when it returns or raises.
EndConstruct(kind, mkdir_ok, hub, outcome) ==
    LET c == construct(kind, mkdir_ok, hub, outcome)
    IN  /\ requested' = kind
        /\ validation_level' = DefaultValidationLevel
        /\ auto_save_interval' = DefaultAutoSaveInterval
        /\ init_failed' = (kind \in SUPPORTED_TRACKERS /\ mkdir_ok
                          /\ BackendInitFails(kind, hub, outcome))
        /\ init_error' = c.exc
        /\ phase' = IF c.exc # "none" THEN "failed" ELSE "ready"
        /\ tracker_type' = c.tracker_type
        /\ tracker' = c.tracker
        /\ has_io' = c.has_io
        /\ tobii_subscribed' = c.tobii_subscribed
        /\ bridge_started' = c.bridge_started
        /\ fallback_entries' = c.fallback_entries
        /\ last_raised' = (c.exc # "none")
        /\ last_op' = "__init__"
        /\ last_appended' = FALSE
        /\ last_key' = "none"
        /\ last_due' = FALSE
        /\ last_write' = "none"
        /\ last_sample' = "none"
        /\ last_valid_gaze' = 0
        /\ last_timestamp' = 0
        /\ sample_count' = 0
        /\ dropped_samples' = 0
        /\ last_fast' = FALSE
        /\ calibration_mode' = FALSE
        /\ UNCHANGED <<is_recording, gaze_data, closed, cal_pc, attempt, cal_attempts,
                       cal_errors, cal_result, cb_pc, last_backup, prev_backup, cal_success>>

\* EyeTracker(window, tracker_type=kind), validation_level and
\* auto_save_interval left at their defaults.
Construct ==
    /\ phase = "new"
    /\ \E kind \in RequestedKinds, mkdir_ok \in BOOLEAN, hub \in HubOutcomes :
       \E outcome \in InitOutcomes(kind) : EndConstruct(kind, mkdir_ok, hub, outcome)
    /\ UNCHANGED <<script_vars, bridge_vars, entry_vars>>

(***************************************************************************)
(* Recording.                                                              *)
(***************************************************************************)
Alive == phase = "ready" /\ cal_pc = "idle"

\* The history of the last calibrate() call is kept until the next operation
\* that is not part of it.
CalibrateHistory == <<cal_attempts, cal_errors, cal_result, cal_success>>

ForgetCalibrate ==
    /\ cal_attempts' = 0
    /\ cal_errors' = 0
    /\ cal_result' = "none"
    /\ cal_success' = FALSE

\* Calls into a device made after close() (io.quit(), tracker.close()) have
\* no defined outcome: they may work or raise.
DeviceOutcomes == IF closed THEN BOOLEAN ELSE {TRUE}

\* start_recording talks to the device only for these backends.
RecordingDevice(tt) == tt \in {"psychopy", "eyelink"}

start_keeps_buffer(rec, data) == [is_recording |-> TRUE, gaze_data |-> data]

\* start_recording's assignments
start_recording_state(rec, data) == [is_recording |-> TRUE, gaze_data |-> <<>>]

stop_clears_buffer(rec, data) == [is_recording |-> FALSE, gaze_data |-> <<>>]

\* stop_recording's assignment
stop_recording_state(rec, data) == [is_recording |-> FALSE, gaze_data |-> data]

start_recording ==
    /\ Alive
    /\ LET s == start_recording_state(is_recording, gaze_data) IN
         /\ is_recording' = s.is_recording
         /\ gaze_data' = s.gaze_data
    /\ \E dev_ok \in DeviceOutcomes :
         last_raised' = (RecordingDevice(tracker_type) /\ ~dev_ok)
    /\ last_op' = "start_recording"
    /\ last_appended' = FALSE
    /\ UNCHANGED <<validation_level, auto_save_interval, phase, requested, init_failed, init_error, fallback_entries, tracker_type,
                   tracker, has_io, tobii_subscribed, bridge_started, closed,
                   cal_pc, attempt>>
    /\ last_key' = "none"
    /\ last_due' = FALSE
    /\ last_write' = "none"
    /\ last_sample' = "none"
    /\ last_backup' = <<>>
    /\ prev_backup' = <<>>
    /\ UNCHANGED <<cb_pc>>
    /\ ForgetCalibrate
    /\ UNCHANGED <<script_vars, bridge_vars, stats_vars, entry_vars, device_vars>>

stop_recording ==
    /\ Alive
    /\ LET s == stop_recording_state(is_recording, gaze_data) IN
         /\ is_recording' = s.is_recording
         /\ gaze_data' = s.gaze_data
    /\ \E dev_ok \in DeviceOutcomes :
         last_raised' = (RecordingDevice(tracker_type) /\ ~dev_ok)
    /\ last_op' = "stop_recording"
    /\ last_appended' = FALSE
    /\ UNCHANGED <<validation_level, auto_save_interval, phase, requested, init_failed, init_error, fallback_entries, tracker_type,
                   tracker, has_io, tobii_subscribed, bridge_started, closed,
                   cal_pc, attempt>>
    /\ last_key' = "none"
    /\ last_due' = FALSE
    /\ last_write' = "none"
    /\ last_sample' = "none"
    /\ UNCHANGED <<cb_pc, last_backup, prev_backup>>
    /\ ForgetCalibrate
    /\ UNCHANGED <<script_vars, bridge_vars, stats_vars, entry_vars, device_vars>>

(***************************************************************************)
(* Polling.  polled is what the device hands out: a position, or 0 for     *)
(* None (no new sample).                                                   *)
(***************************************************************************)
Polls == Positions \cup {0}

\* update() calls a method of self.tracker for these backends.
PollsDevice(tt) == tt \in {"psychopy", "webgazer", "mouse"}

\* _update_mouse needs self.tracker to be the iohub mouse (getPos).
update_raises(tt, trk, dev_ok) ==
    \/ tt = "mouse" /\ trk # "mouse"
    \/ PollsDevice(tt) /\ ~dev_ok

\* What update() appends to gaze_data: _update_psychopy, _update_webgazer,
\* _update_mouse; nothing for tobii and eyelink.
update_appends(tt, polled) ==
    CASE tt \in {"psychopy", "webgazer"} ->
             IF polled # 0 THEN <<PolledSample(polled)>> ELSE <<>>
      [] tt = "mouse" -> <<PolledSample(polled)>>
      [] OTHER -> <<>>

\* The mouse always has a position.
PollsOf(tt) == IF tt = "mouse" THEN Positions ELSE Polls

UpdateEffect(polled, dev_ok, op) ==
    LET raises == update_raises(tracker_type, tracker, dev_ok)
        new == IF raises THEN <<>> ELSE update_appends(tracker_type, polled)
    IN  /\ Len(gaze_data) + Len(new) <= MaxSamples
        /\ gaze_data' = gaze_data \o new
        /\ last_raised' = raises
        /\ last_appended' = (new # <<>>)
        /\ last_op' = op
        \* update() never looks at the clock; due records what it would show
        /\ \E due \in BOOLEAN : last_due' = (new # <<>> /\ due)

update ==
    /\ Alive
    /\ \E polled \in PollsOf(tracker_type), dev_ok \in DeviceOutcomes :
         UpdateEffect(polled, dev_ok, "update")
    /\ UNCHANGED <<validation_level, auto_save_interval, phase, requested, init_failed, init_error, fallback_entries, tracker_type,
                   tracker, has_io, tobii_subscribed, bridge_started, is_recording,
                   closed, cal_pc, attempt>>
    /\ last_key' = "none"
    /\ last_write' = "none"
    /\ last_sample' = "none"
    /\ UNCHANGED <<cb_pc, last_backup, prev_backup>>
    /\ ForgetCalibrate
    /\ UNCHANGED <<script_vars, bridge_vars, stats_vars, entry_vars, device_vars>>

\* get_gaze_position: polls once when not recording, then reads the last entry.
get_gaze_position ==
    /\ Alive
    /\ IF is_recording
       THEN /\ UNCHANGED gaze_data
            /\ last_raised' = FALSE
            /\ last_appended' = FALSE
            /\ last_op' = "get_gaze_position"
            /\ last_due' = FALSE
       ELSE \E polled \in PollsOf(tracker_type), dev_ok \in DeviceOutcomes :
              UpdateEffect(polled, dev_ok, "get_gaze_position")
    /\ UNCHANGED <<validation_level, auto_save_interval, phase, requested, init_failed, init_error, fallback_entries, tracker_type,
                   tracker, has_io, tobii_subscribed, bridge_started, is_recording,
                   closed, cal_pc, attempt>>
    /\ last_key' = "none"
    /\ last_write' = "none"
    /\ last_sample' = "none"
    /\ UNCHANGED <<cb_pc, last_backup, prev_backup>>
    /\ ForgetCalibrate
    /\ UNCHANGED <<script_vars, bridge_vars, stats_vars, entry_vars, device_vars>>

(***************************************************************************)
(* The Tobii SDK's thread delivering one gaze sample to the subscribed     *)
(* callback.  eyes: which eyes report a valid position.                    *)
(***************************************************************************)
Eyes == {"both", "left", "right", "neither"}

\* confidence in tenths: 1.0 for both eyes, 0.5 for one.
Confidence(eyes) == IF eyes = "both" THEN 10 ELSE 5

\* None for a pupil diameter; a measured diameter d is the set {d}.
None == {}

\* The (left, right) pupil diameters the SDK delivers: none measured, both
\* at a limit, the left one below the limits, the right one above them.
PupilReadings ==
    { <<None, None>>,
      <<{min_pupil_size}, {max_pupil_size}>>,
      <<{min_pupil_size - 1}, {max_pupil_size}>>,
      <<{min_pupil_size}, {max_pupil_size + 1}>> }

\* "pupil is not None and (pupil < min_pupil_size or pupil > max_pupil_size)"
pupil_rejected(pupil) ==
    \E d \in pupil : d < min_pupil_size \/ d > max_pupil_size

\* The sample handed to the callback, by what is wrong with it.
sample_class(eyes, pl, pr) ==
    IF eyes = "neither" THEN "no_eye"
    ELSE IF pupil_rejected(pl) \/ pupil_rejected(pr) THEN "pupil"
    ELSE "ok"

\* The positions the Tobii device reports under strict validation: two, so
\* that the gaze can move between two samples.
GazePoints == {1, 2}

\* device_time_stamp of the samples the SDK delivers.
TimeStamps == {1, 2}

\* "dx = screen_x - self.last_valid_gaze[0]; distance = np.sqrt(dx**2 + dy**2)"
\* for two positions on one horizontal line, in pixels.
distance(x, last_x) ==
    PixelsPerPosition * (IF x >= last_x THEN x - last_x ELSE last_x - x)

\* The velocity check: made only when a sample was kept before and the new
\* one is later; "velocity = distance / dt; velocity > self.max_velocity".
too_fast(last_ts, last_x, ts, x) ==
    /\ last_ts > 0
    /\ ts - last_ts > 0
    /\ distance(x, last_x) > max_velocity * (ts - last_ts)

callback_verdict_velocity_uncounted(level, eyes, pl, pr, fast) ==
    IF eyes = "neither" THEN "no_eye"
    ELSE IF level # "strict" THEN "kept"
    ELSE IF pupil_rejected(pl) \/ pupil_rejected(pr) THEN "pupil"
    ELSE "kept"

\* Which return of the callback a sample takes: one of the three that
\* count it in dropped_samples, or "kept" for the end of the with-block.
callback_verdict(level, eyes, pl, pr, fast) ==
    IF eyes = "neither" THEN "no_eye"
    ELSE IF level # "strict" THEN "kept"
    ELSE IF pupil_rejected(pl) \/ pupil_rejected(pr) THEN "pupil"
    ELSE IF fast THEN "velocity"
    ELSE "kept"

strict_checks_pupils_only_left(eyes, pl, pr, fast) ==
    eyes # "neither" /\ ~pupil_rejected(pl) /\ ~fast

\* The checks of validation_level 'strict': both pupils, then the velocity
\* (fast: the movement since the last kept sample exceeds max_velocity).
strict_checks(eyes, pl, pr, fast) ==
    eyes # "neither" /\ ~pupil_rejected(pl) /\ ~pupil_rejected(pr) /\ ~fast

\* What the callback appends inside its with-block: nothing when no eye is
\* valid or a strict check fails, else the sample.
tobii_gaze_callback_appends(level, eyes, x, pl, pr, fast) ==
    IF eyes = "neither" THEN <<>>
    ELSE IF level = "strict" /\ ~strict_checks(eyes, pl, pr, fast) THEN <<>>
    ELSE <<Sample(x, Confidence(eyes))>>

\* "auto_save_interval > 0 and time.time() - last_auto_save > auto_save_interval"
auto_save_due(interval, due) == interval > 0 /\ due

auto_save_drops_first(rec, data, backup, write_ok) ==
    IF data = <<>> THEN [is_recording |-> rec, backup |-> backup, write |-> "none", raised |-> FALSE]
    ELSE IF write_ok
         THEN [is_recording |-> rec, backup |-> Tail(data), write |-> "written", raised |-> FALSE]
         ELSE [is_recording |-> rec, backup |-> backup, write |-> "failed", raised |-> FALSE]

\* _auto_save_data: save_data() writes the whole of gaze_data to a backup
\* file; a failed write is logged and nothing else happens.
auto_save_data(rec, data, backup, write_ok) ==
    IF data = <<>> THEN [is_recording |-> rec, backup |-> backup, write |-> "none", raised |-> FALSE]
    ELSE IF write_ok
         THEN [is_recording |-> rec, backup |-> data, write |-> "written", raised |-> FALSE]
         ELSE [is_recording |-> rec, backup |-> backup, write |-> "failed", raised |-> FALSE]

\* The callback is invoked: "if not self.is_recording: return", and
\* otherwise the SDK thread goes on to take data_lock.
tobii_gaze_callback_enter ==
    /\ phase = "ready"
    /\ tobii_subscribed
    /\ cb_pc = "idle"
    /\ is_recording => sample_count + dropped_samples < MaxCallbacks
    /\ cb_pc' = IF is_recording THEN "locked" ELSE "idle"
    /\ last_op' = "tobii_gaze_callback"
    /\ last_raised' = FALSE
    /\ last_appended' = FALSE
    /\ last_key' = "none"
    /\ last_due' = FALSE
    /\ last_write' = "none"
    /\ last_sample' = "none"
    /\ UNCHANGED <<validation_level, auto_save_interval, phase, requested, init_failed,
                   init_error, fallback_entries, tracker_type, tracker, has_io,
                   tobii_subscribed, bridge_started, is_recording, gaze_data, closed,
                   cal_pc, attempt,
                   last_backup, prev_backup>>
    /\ IF cal_pc = "idle" THEN ForgetCalibrate ELSE UNCHANGED CalibrateHistory
    /\ UNCHANGED <<script_vars, bridge_vars, stats_vars, entry_vars, device_vars>>

\* The with-block of the callback, holding data_lock: the sample is checked
\* and appended, and the buffer auto-saved when the interval has elapsed.
tobii_gaze_callback ==
    /\ cb_pc = "locked"
    /\ \E eyes \in Eyes, pupils \in PupilReadings,
          x \in (IF validation_level = "strict" THEN GazePoints ELSE Positions),
          ts \in (IF validation_level = "strict" THEN TimeStamps ELSE {1}),
          due \in (IF auto_save_interval > 0 THEN BOOLEAN ELSE {FALSE}) :
       \E write_ok \in (IF due THEN BOOLEAN ELSE {TRUE}) :
         LET pl == pupils[1]
             pr == pupils[2]
             fast == too_fast(last_timestamp, last_valid_gaze, ts, x)
             new == tobii_gaze_callback_appends(validation_level, eyes, x, pl, pr, fast)
             data == gaze_data \o new
             saved == IF new # <<>> /\ auto_save_due(auto_save_interval, due)
                      THEN auto_save_data(is_recording, data, last_backup, write_ok)
                      ELSE [is_recording |-> is_recording, backup |-> last_backup,
                            write |-> "none", raised |-> FALSE]
         IN  /\ Len(data) <= MaxSamples
             /\ gaze_data' = data
             /\ is_recording' = saved.is_recording
             /\ last_backup' = saved.backup
             /\ prev_backup' = IF saved.write = "written" THEN last_backup ELSE prev_backup
             /\ last_write' = saved.write
             /\ last_raised' = saved.raised
             /\ last_appended' = (new # <<>>)
             /\ last_due' = (new # <<>> /\ due)
             /\ last_sample' = sample_class(eyes, pl, pr)
             /\ last_fast' = fast
             /\ IF callback_verdict(validation_level, eyes, pl, pr, fast) # "kept"
                THEN /\ dropped_samples' = dropped_samples + 1
                     /\ UNCHANGED <<last_valid_gaze, last_timestamp, sample_count>>
                ELSE /\ last_valid_gaze' = x
                     /\ last_timestamp' = ts
                     /\ sample_count' = sample_count + 1
                     /\ UNCHANGED dropped_samples
    /\ cb_pc' = "idle"
    /\ last_op' = "tobii_gaze_callback"
    /\ last_key' = "none"
    /\ UNCHANGED <<validation_level, auto_save_interval, phase, requested, init_failed,
                   init_error, fallback_entries, tracker_type, tracker, has_io,
                   tobii_subscribed, bridge_started, closed, cal_pc, attempt>>
    /\ IF cal_pc = "idle" THEN ForgetCalibrate ELSE UNCHANGED CalibrateHistory
    /\ UNCHANGED <<script_vars, bridge_vars, entry_vars, device_vars>>

(***************************************************************************)
(* save_data(): the main flow writes gaze_data to a file (open and         *)
(* json.dump may raise); the object is left as it is.                      *)
(***************************************************************************)
save_data ==
    /\ Alive
    /\ \E write_ok \in BOOLEAN : last_raised' = ~write_ok
    /\ last_op' = "save_data"
    /\ last_appended' = FALSE
    /\ last_key' = "none"
    /\ last_due' = FALSE
    /\ last_write' = "none"
    /\ last_sample' = "none"
    /\ UNCHANGED <<validation_level, auto_save_interval, phase, requested, init_failed,
                   init_error, fallback_entries, tracker_type, tracker, has_io,
                   tobii_subscribed, bridge_started, is_recording, gaze_data, closed,
                   cal_pc, attempt,
                   cb_pc, last_backup, prev_backup>>
    /\ ForgetCalibrate
    /\ UNCHANGED <<script_vars, bridge_vars, stats_vars, entry_vars, device_vars>>

(***************************************************************************)
(* close(): stop_recording(), the backend's shutdown chosen by             *)
(* tracker_type, io.quit().  It sets no flag on the object.                *)
(***************************************************************************)
close ==
    /\ Alive
    /\ is_recording' = stop_recording_state(is_recording, gaze_data).is_recording
    /\ gaze_data' = stop_recording_state(is_recording, gaze_data).gaze_data
    /\ tobii_subscribed' = IF tracker_type = "tobii" THEN FALSE ELSE tobii_subscribed
    /\ bridge_started' = IF tracker_type = "webgazer" THEN FALSE ELSE bridge_started
    /\ closed' = TRUE
    /\ \E dev_ok \in DeviceOutcomes :
         last_raised' = ((RecordingDevice(tracker_type) \/ has_io) /\ ~dev_ok)
    /\ last_op' = "close"
    /\ last_appended' = FALSE
    /\ UNCHANGED <<validation_level, auto_save_interval, phase, requested, init_failed, init_error, fallback_entries, tracker_type,
                   tracker, has_io, cal_pc, attempt>>
    /\ last_key' = "none"
    /\ last_due' = FALSE
    /\ last_write' = "none"
    /\ last_sample' = "none"
    /\ UNCHANGED <<cb_pc, last_backup, prev_backup>>
    /\ ForgetCalibrate
    /\ UNCHANGED <<script_vars, bridge_vars, stats_vars, entry_vars, device_vars>>

(***************************************************************************)
(* calibrate(): a loop of at most max_attempts iterations.  It blocks on   *)
(* the operator's key at the retry prompts, and (Tobii) while the          *)
(* validation sweep runs with the gaze callback live; these are the points *)
(* where it is a separate step.                                            *)
(***************************************************************************)
Keys == {"space", "escape", "none"}     \* waitKeys' answer holds one key, or none

CalibrationBackends == {"psychopy", "webgazer", "tobii", "eyelink"}

Returned(result) == [pc |-> "idle", attempt |-> 0, result |-> result]

after_prompt_ignores_escape(att, key) ==
    IF att + 1 <= max_attempts
    THEN [pc |-> "attempt", attempt |-> att + 1, result |-> "none"]
    ELSE Returned("false")

after_prompt_unbounded(att, key) ==
    IF key = "escape" THEN Returned("false")
    ELSE [pc |-> "attempt", attempt |-> att + 1, result |-> "none"]

\* After a prompt: escape returns False; otherwise the for loop goes on to
\* the next attempt, or ends after max_attempts and calibrate returns False.
after_prompt(att, key) ==
    IF key = "escape" THEN Returned("false")
    ELSE IF att + 1 <= max_attempts
         THEN [pc |-> "attempt", attempt |-> att + 1, result |-> "none"]
         ELSE Returned("false")

after_attempt_propagates(att, res) ==
    CASE res = "true"  -> Returned("true")
      [] res = "false" -> IF att < max_attempts
                          THEN [pc |-> "prompt_failed", attempt |-> att, result |-> "none"]
                          ELSE after_prompt(att, "none")
      [] OTHER -> Returned("raised")

\* The loop body after _calibrate_<backend> came back with res: "true",
\* "false", or "exc" (it raised into calibrate's except clause).
after_attempt(att, res) ==
    CASE res = "true"  -> Returned("true")
      [] res = "false" -> IF att < max_attempts
                          THEN [pc |-> "prompt_failed", attempt |-> att, result |-> "none"]
                          ELSE after_prompt(att, "none")
      [] OTHER -> [pc |-> "prompt_error", attempt |-> att, result |-> "none"]

\* The ways one _calibrate_<backend> call can go.
\*   psychopy: runSetupProcedure's result; its exceptions are caught inside.
\*   webgazer: returns True after a passed validation, False on escape, or raises.
\*   tobii:    raises before its try block; fails inside it before the
\*             device is in calibration mode ("try_exc") or after
\*             ("mode_exc": collect_data, compute_and_apply, the drawing);
\*             the device reports a failed calibration; or validation starts.
\*   eyelink:  doTrackerSetup returns (True) or raises.
AttemptPaths(tt) ==
    CASE tt = "psychopy" -> {"true", "false"}
      [] tt = "webgazer" -> {"true", "false", "exc"}
      [] tt = "tobii"    -> {"exc", "try_exc", "mode_exc", "status_failed", "validate"}
      [] tt = "eyelink"  -> {"true", "exc"}
      [] OTHER -> {}

\* The backend's calibration and its validation succeeded on this path.
\* _calibrate_tobii sets success only from a validation that yields errors,
\* which it cannot (calibrate_tobii_validated).
attempt_succeeded(tt, path) == tt # "tobii" /\ path = "true"

\* _calibrate_tobii's return after its final prompt: with success False,
\* escape returns True ("continue anyway"), any other key returns False.
tobii_failed_return(key) == IF key = "escape" THEN "true" ELSE "false"

\* _calibrate_tobii for the paths that do not reach validation.
calibrate_tobii_result(path, key) ==
    CASE path = "exc" -> "exc"
      [] path \in {"try_exc", "mode_exc"} -> "false"
      [] OTHER -> tobii_failed_return(key)

\* The device's calibration mode after one _calibrate_tobii:
\* enter_calibration_mode() is the third statement of the try block and
\* leave_calibration_mode() follows compute_and_apply(); an exception in
\* between goes to the except clause, which returns False.
tobii_mode_after(mode, path) ==
    CASE path \in {"exc", "try_exc"} -> mode
      [] path = "mode_exc" -> TRUE
      [] OTHER -> FALSE

\* _validate_webgazer_calibration reads get_gaze_position(), which polls the
\* bridge (and appends) when not recording.
webgazer_polls(rec, polled) ==
    IF rec THEN <<>> ELSE update_appends("webgazer", polled)

\* calibrate() is entered: what the recording session is at the call.
TakeEntry ==
    IF cal_pc' = "idle"
    THEN UNCHANGED entry_vars
    ELSE entry_recording' = is_recording /\ entry_gaze_data' = gaze_data

\* Kept until calibrate() returns.
KeepEntry ==
    IF cal_pc' = "idle"
    THEN entry_recording' = FALSE /\ entry_gaze_data' = <<>>
    ELSE UNCHANGED entry_vars

SetCalibrate(r) ==
    /\ cal_pc' = r.pc
    /\ attempt' = r.attempt
    /\ cal_result' = r.result
    /\ last_raised' = (r.result = "raised")
    /\ last_op' = "calibrate"

\* calibrate() is called: the first loop iteration begins.  For the mouse
\* (and an unknown type) it returns at once, without any attempt.
calibrate_begin ==
    /\ Alive
    /\ cal_attempts' = 0
    /\ cal_errors' = 0
    /\ IF tracker_type \in CalibrationBackends
       THEN SetCalibrate([pc |-> "attempt", attempt |-> 1, result |-> "none"])
       ELSE SetCalibrate(Returned(IF tracker_type = "mouse" THEN "true" ELSE "false"))
    /\ last_appended' = FALSE
    /\ UNCHANGED <<validation_level, auto_save_interval, phase, requested, init_failed, init_error, fallback_entries, tracker_type,
                   tracker, has_io, tobii_subscribed, bridge_started, is_recording,
                   gaze_data, closed>>
    /\ last_key' = "none"
    /\ last_due' = FALSE
    /\ last_write' = "none"
    /\ last_sample' = "none"
    /\ cal_success' = FALSE
    /\ UNCHANGED <<cb_pc, last_backup, prev_backup>>
    /\ TakeEntry
    /\ UNCHANGED <<script_vars, bridge_vars, stats_vars, device_vars>>

\* One call of _calibrate_<backend> and the code up to the next prompt.
calibrate_attempt ==
    /\ phase = "ready"
    /\ cal_pc = "attempt"
    /\ cal_attempts' = cal_attempts + 1
    /\ \E path \in AttemptPaths(tracker_type), key \in Keys, polled \in Polls :
         /\ calibration_mode' = IF tracker_type = "tobii"
                                THEN tobii_mode_after(calibration_mode, path)
                                ELSE calibration_mode
         /\ IF tracker_type = "tobii" /\ path = "validate"
            THEN \* _validate_tobii_calibration: start_recording(), then the sweep
                 /\ is_recording' = start_recording_state(is_recording, gaze_data).is_recording
                 /\ gaze_data' = start_recording_state(is_recording, gaze_data).gaze_data
                 /\ cal_errors' = cal_errors
                 /\ SetCalibrate([pc |-> "validating", attempt |-> attempt, result |-> "none"])
                 /\ last_appended' = FALSE
                 /\ last_backup' = <<>>
                 /\ prev_backup' = <<>>
                 /\ cal_success' = FALSE
            ELSE LET new == IF tracker_type = "webgazer" /\ path # "exc"
                            THEN webgazer_polls(is_recording, polled) ELSE <<>>
                     res == IF tracker_type = "tobii"
                            THEN calibrate_tobii_result(path, key) ELSE path
                 IN  /\ Len(gaze_data) + Len(new) <= MaxSamples
                     \* a passed WebGazer validation has read a gaze position
                     /\ (tracker_type = "webgazer" /\ path = "true") => gaze_data \o new # <<>>
                     /\ gaze_data' = gaze_data \o new
                     /\ last_appended' = (new # <<>>)
                     /\ UNCHANGED is_recording
                     /\ cal_errors' = cal_errors + (IF res = "exc" THEN 1 ELSE 0)
                     /\ SetCalibrate(after_attempt(attempt, res))
                     /\ cal_success' = attempt_succeeded(tracker_type, path)
                     /\ UNCHANGED <<last_backup, prev_backup>>
    /\ UNCHANGED <<validation_level, auto_save_interval, phase, requested, init_failed, init_error, fallback_entries, tracker_type,
                   tracker, has_io, tobii_subscribed, bridge_started, closed>>
    /\ last_key' = "none"
    /\ last_due' = FALSE
    /\ last_write' = "none"
    /\ last_sample' = "none"
    /\ UNCHANGED cb_pc
    /\ KeepEntry
    /\ UNCHANGED <<script_vars, bridge_vars, stats_vars>>

\* The end of the Tobii validation sweep.  With samples in the buffer it
\* calls self.calculate_gaze_error, which the class does not define: the
\* AttributeError skips stop_recording() and _calibrate_tobii returns False.
\* With an empty buffer the result is an empty error list: validation failed.
calibrate_tobii_validated ==
    /\ phase = "ready"
    /\ cal_pc = "validating"
    /\ cb_pc = "idle"                  \* "with self.data_lock" waits for the callback
    /\ \E key \in Keys :
         IF gaze_data # <<>>
         THEN /\ UNCHANGED <<is_recording, gaze_data>>
              /\ SetCalibrate(after_attempt(attempt, "false"))
         ELSE /\ is_recording' = stop_recording_state(is_recording, gaze_data).is_recording
              /\ gaze_data' = stop_recording_state(is_recording, gaze_data).gaze_data
              /\ SetCalibrate(after_attempt(attempt, tobii_failed_return(key)))
    /\ last_appended' = FALSE
    /\ UNCHANGED <<validation_level, auto_save_interval, phase, requested, init_failed, init_error, fallback_entries, tracker_type,
                   tracker, has_io, tobii_subscribed, bridge_started, closed,
                   cal_attempts, cal_errors>>
    /\ last_key' = "none"
    /\ last_due' = FALSE
    /\ last_write' = "none"
    /\ last_sample' = "none"
    /\ UNCHANGED <<cb_pc, last_backup, prev_backup, cal_success>>
    /\ KeepEntry
    /\ UNCHANGED <<script_vars, bridge_vars, stats_vars, device_vars>>

\* The operator answers "Press SPACE to retry or ESC to skip calibration".
calibrate_prompt ==
    /\ phase = "ready"
    /\ cal_pc \in {"prompt_failed", "prompt_error"}
    /\ \E key \in Keys :
         /\ SetCalibrate(after_prompt(attempt, key))
         /\ last_key' = key
    /\ last_appended' = FALSE
    /\ UNCHANGED <<validation_level, auto_save_interval, phase, requested, init_failed, init_error, fallback_entries, tracker_type,
                   tracker, has_io, tobii_subscribed, bridge_started, is_recording,
                   gaze_data, closed, cal_attempts, cal_errors>>
    /\ last_due' = FALSE
    /\ last_write' = "none"
    /\ last_sample' = "none"
    /\ UNCHANGED <<cb_pc, last_backup, prev_backup, cal_success>>
    /\ KeepEntry
    /\ UNCHANGED <<script_vars, bridge_vars, stats_vars, device_vars>>

Next ==
    \/ Construct
    \/ start_recording
    \/ stop_recording
    \/ update
    \/ get_gaze_position
    \/ tobii_gaze_callback_enter
    \/ tobii_gaze_callback
    \/ save_data
    \/ close
    \/ calibrate_begin
    \/ calibrate_attempt
    \/ calibrate_tobii_validated
    \/ calibrate_prompt

Spec == Init /\ [][Next]_vars

(***************************************************************************)
(* A session with the Tobii callback subscribed, for every validation      *)
(* level and auto-save interval: the objects __init__ leaves behind for a  *)
(* 'tobii' request whose subscription was made, then recording, polling    *)
(* and the callback.                                                       *)
(***************************************************************************)
InitTobii ==
    \E hub \in HubOutcomes, outcome \in InitOutcomes("tobii"),
       level \in ValidationLevels, interval \in AutoSaveIntervals :
      LET c == construct("tobii", TRUE, hub, outcome) IN
        /\ c.exc = "none"
        /\ c.tobii_subscribed
        /\ phase = "ready"
        /\ requested = "tobii"
        /\ init_failed = BackendInitFails("tobii", hub, outcome)
        /\ init_error = "none"
        /\ fallback_entries = c.fallback_entries
        /\ tracker_type = c.tracker_type
        /\ tracker = c.tracker
        /\ has_io = c.has_io
        /\ tobii_subscribed = TRUE
        /\ bridge_started = c.bridge_started
        /\ validation_level = level
        /\ auto_save_interval = interval
        /\ is_recording = FALSE
        /\ gaze_data = <<>>
        /\ closed = FALSE
        /\ last_op = "__init__"
        /\ last_raised = FALSE
        /\ last_appended = FALSE
        /\ cal_pc = "idle"
        /\ attempt = 0
        /\ cal_attempts = 0
        /\ cal_errors = 0
        /\ cal_result = "none"
        /\ cal_success = FALSE
        /\ last_key = "none"
        /\ cb_pc = "idle"
        /\ last_backup = <<>>
        /\ prev_backup = <<>>
        /\ last_due = FALSE
        /\ last_sample = "none"
        /\ last_write = "none"
        /\ last_valid_gaze = 0
        /\ last_timestamp = 0
        /\ sample_count = 0
        /\ dropped_samples = 0
        /\ last_fast = FALSE
    /\ NoEntry
    /\ calibration_mode = FALSE
    /\ ScriptsIdle

NextTobii ==
    \/ start_recording
    \/ stop_recording
    \/ update
    \/ tobii_gaze_callback_enter
    \/ tobii_gaze_callback

SpecTobii == InitTobii /\ [][NextTobii]_vars

(***************************************************************************)
(* run_calibration (Scripts/calibration.py).                               *)
(***************************************************************************)
\* From the call to the first point: the configuration is read, the log
\* file opened and its header written; when that fails run_calibration
\* shows the error and returns {"success": False, "error": ...}.
run_calibration_start ==
    /\ script_pc = "idle"
    /\ proc' = "run_calibration"
    /\ \E pts \in PointLists, vpts \in PointLists, log_ok \in BOOLEAN :
         /\ points' = pts
         /\ validation_points' = vpts
         /\ IF log_ok
            THEN /\ log_rows' = <<CalibrationHeader>>
                 /\ script_pc' = loop_pc("Calibration", 0, pts, vpts)
                 /\ results' = results
            ELSE /\ log_rows' = <<>>
                 /\ script_pc' = "returned"
                 /\ results' = [NoResults EXCEPT !.status = "failed_early"]
    /\ UNCHANGED <<done_points, all_errors, validation_errors, error_sum, unmeasured>>
    /\ UNCHANGED <<tracker_vars, prev_results, analysis, bridge_vars, stats_vars, entry_vars, device_vars>>

\* One point of the calibration loop or of the validation loop.
run_calibration_point ==
    /\ proc = "run_calibration"
    /\ script_pc \in {"calibration", "validation"}
    /\ LET loop == IF script_pc = "calibration" THEN "Calibration" ELSE "Validation"
           i == done_points + 1
       IN  \E outcome \in PointOutcomes(loop), e \in MeasuredErrors :
           \E handler_ok \in (IF outcome = "ok" THEN {TRUE} ELSE BOOLEAN) :
             LET st == calibration_point(IF loop = "Calibration" THEN all_errors
                                         ELSE validation_errors,
                                         log_rows, loop, i,
                                         (IF loop = "Calibration" THEN points
                                          ELSE validation_points)[i],
                                         outcome, e, handler_ok)
                 next == loop_pc(loop, i, points, validation_points)
             IN  /\ all_errors' = IF loop = "Calibration" THEN st.errors ELSE all_errors
                 /\ validation_errors' = IF loop = "Validation" THEN st.errors
                                         ELSE validation_errors
                 /\ log_rows' = st.rows
                 /\ unmeasured' = IF loop = "Calibration" /\ outcome = "measure_raises"
                                  THEN unmeasured + 1 ELSE unmeasured
                 /\ script_pc' = IF st.raised THEN "raised" ELSE next
                 /\ done_points' = IF ~st.raised /\ next # script_pc /\ next = "validation"
                                   THEN 0 ELSE i
                 /\ results' = IF st.raised THEN [NoResults EXCEPT !.status = "raised"]
                               ELSE results
    /\ UNCHANGED <<proc, points, validation_points, error_sum>>
    /\ UNCHANGED <<tracker_vars, prev_results, analysis, bridge_vars, stats_vars, entry_vars, device_vars>>

\* After the loops: the averages, the verdict, the results file (its write
\* is in no try block).
run_calibration_finish ==
    /\ proc = "run_calibration"
    /\ script_pc = "finish"
    /\ \E results_ok \in BOOLEAN :
         IF results_ok
         THEN /\ script_pc' = "returned"
              /\ results' = [NoResults EXCEPT
                               !.status = "returned",
                               !.average = Mean(all_errors),
                               !.validation_average = Mean(validation_errors),
                               !.success = RatLeq(Mean(validation_errors), error_threshold)]
         ELSE /\ script_pc' = "raised"
              /\ results' = [NoResults EXCEPT !.status = "raised"]
    /\ UNCHANGED <<proc, points, validation_points, done_points, all_errors,
                   validation_errors, error_sum, log_rows, unmeasured>>
    /\ UNCHANGED <<tracker_vars, prev_results, analysis, bridge_vars, stats_vars, entry_vars, device_vars>>

(***************************************************************************)
(* run_validation (Scripts/validation.py).  all_errors keeps the errors    *)
(* that were added to error_sum.                                           *)
(***************************************************************************)
\* From the call to the first point; open() and the header's write are in
\* no try block.
run_validation_start ==
    /\ script_pc = "idle"
    /\ proc' = "run_validation"
    /\ \E pts \in PointLists, log_ok \in BOOLEAN :
         /\ points' = pts
         /\ IF log_ok
            THEN /\ log_rows' = <<Header>>
                 /\ script_pc' = IF pts # <<>> THEN "validation" ELSE "finish"
                 /\ results' = results
            ELSE /\ log_rows' = <<>>
                 /\ script_pc' = "raised"
                 /\ results' = [NoResults EXCEPT !.status = "raised"]
    /\ UNCHANGED <<validation_points, done_points, all_errors, validation_errors,
                   error_sum, unmeasured>>
    /\ UNCHANGED <<tracker_vars, prev_results, analysis, bridge_vars, stats_vars, entry_vars, device_vars>>

run_validation_point ==
    /\ proc = "run_validation"
    /\ script_pc = "validation"
    /\ LET i == done_points + 1 IN
         \E outcome \in PointOutcomes("Validation"), e \in MeasuredErrors :
         \E handler_ok \in (IF outcome = "ok" THEN {TRUE} ELSE BOOLEAN) :
           LET st == validation_point(error_sum, log_rows, i, points[i], outcome, e, handler_ok)
           IN  /\ error_sum' = st.sum
               /\ all_errors' = IF st.collected THEN Append(all_errors, e) ELSE all_errors
               /\ log_rows' = st.rows
               /\ unmeasured' = IF st.collected THEN unmeasured ELSE unmeasured + 1
               /\ done_points' = i
               /\ script_pc' = IF st.raised THEN "raised"
                               ELSE IF i < Len(points) THEN "validation" ELSE "finish"
               /\ results' = IF st.raised THEN [NoResults EXCEPT !.status = "raised"]
                             ELSE results
    /\ UNCHANGED <<proc, points, validation_points, validation_errors>>
    /\ UNCHANGED <<tracker_vars, prev_results, analysis, bridge_vars, stats_vars, entry_vars, device_vars>>

\* After the loop: avg_error, its row in the log, the verdict.  Without
\* points avg_error is None, and formatting it for the message raises.
run_validation_finish ==
    /\ proc = "run_validation"
    /\ script_pc = "finish"
    /\ \E write_ok \in BOOLEAN :
         LET avg == validation_average(error_sum, points, all_errors) IN
           IF write_ok /\ points # <<>>
           THEN /\ script_pc' = "returned"
                /\ log_rows' = Append(log_rows, average_row)
                /\ results' = [NoResults EXCEPT
                                 !.status = "returned",
                                 !.average = avg,
                                 !.success = RatLeq(avg, validation_threshold)]
           ELSE /\ script_pc' = "raised"
                /\ log_rows' = IF write_ok THEN Append(log_rows, average_row)
                               ELSE log_rows
                /\ results' = [NoResults EXCEPT !.status = "raised"]
    /\ UNCHANGED <<proc, points, validation_points, done_points, all_errors,
                   validation_errors, error_sum, unmeasured>>
    /\ UNCHANGED <<tracker_vars, prev_results, analysis, bridge_vars, stats_vars, entry_vars, device_vars>>

(***************************************************************************)
(* GazeTracker.calibrate (Scripts/gaze_tracking.py).                       *)
(***************************************************************************)
GazeTracker_calibrate_start ==
    /\ script_pc = "idle"
    /\ proc' = "GazeTracker.calibrate"
    /\ \E pts \in TargetLists :
         /\ points' = pts
         /\ script_pc' = IF pts # <<>> THEN "calibration" ELSE "finish"
    /\ UNCHANGED <<validation_points, done_points, all_errors, validation_errors,
                   error_sum, log_rows, unmeasured, results>>
    /\ UNCHANGED <<tracker_vars, prev_results, analysis, bridge_vars, stats_vars, entry_vars, device_vars>>

\* One iteration of the loop: the simulated gaze, its error.
GazeTracker_calibrate_point ==
    /\ proc = "GazeTracker.calibrate"
    /\ script_pc = "calibration"
    /\ \E e \in PointErrors(points) : all_errors' = Append(all_errors, e)
    /\ done_points' = done_points + 1
    /\ script_pc' = IF done_points + 1 < Len(points) THEN "calibration" ELSE "finish"
    /\ UNCHANGED <<proc, points, validation_points, validation_errors, error_sum,
                   log_rows, unmeasured, results>>
    /\ UNCHANGED <<tracker_vars, prev_results, analysis, bridge_vars, stats_vars, entry_vars, device_vars>>

\* The summary statistics and calibration_data; np.min of an empty array
\* raises ValueError.
GazeTracker_calibrate_finish ==
    /\ proc = "GazeTracker.calibrate"
    /\ script_pc = "finish"
    /\ IF all_errors = <<>>
       THEN /\ script_pc' = "raised"
            /\ results' = [NoResults EXCEPT !.status = "raised"]
       ELSE LET q == evaluate_calibration_quality(all_errors, calibration_threshold)
            IN  /\ script_pc' = "returned"
                /\ results' = [NoResults EXCEPT
                                 !.status = "returned",
                                 !.average = q.average,
                                 !.max = q.max,
                                 !.quadrant_errors = quadrant_errors(points, all_errors),
                                 !.points_above_threshold =
                                     points_above(all_errors, calibration_threshold),
                                 !.percent_above = q.percent_above,
                                 !.quality = q.quality,
                                 !.score = q.score]
    /\ UNCHANGED <<proc, points, validation_points, done_points, all_errors,
                   validation_errors, error_sum, log_rows, unmeasured>>
    /\ UNCHANGED <<tracker_vars, prev_results, analysis, bridge_vars, stats_vars, entry_vars, device_vars>>

\* The lines save_calibration_log writes for the first k points.
RECURSIVE saved_rows(_, _, _)
saved_rows(pts, errs, k) ==
    IF k = 0 THEN <<Header>>
    ELSE Append(saved_rows(pts, errs, k - 1), data_row("", k - 1, pts[k], errs[k]))

\* GazeTracker.save_calibration_log after a calibrate(): the header and one
\* line per point; what open() or a write raises leaves it.
save_calibration_log ==
    /\ proc = "GazeTracker.calibrate"
    /\ script_pc = "returned"
    /\ \E write_ok \in BOOLEAN :
         /\ log_rows' = IF write_ok THEN saved_rows(points, all_errors, Len(points)) ELSE <<>>
         /\ script_pc' = IF write_ok THEN "saved" ELSE "raised"
    /\ UNCHANGED <<proc, points, validation_points, done_points, all_errors,
                   validation_errors, error_sum, unmeasured, results>>
    /\ UNCHANGED <<tracker_vars, prev_results, analysis, bridge_vars, stats_vars, entry_vars, device_vars>>

(***************************************************************************)
(* check_calibration_and_adapt (Scripts/adaptive_control.py) on the log    *)
(* file a finished procedure left.                                         *)
(***************************************************************************)
adapt_threshold == 2           \* adaptive_control.py's own run: 0.2

check_calibration_and_adapt ==
    /\ script_pc \in {"returned", "saved"}
    /\ log_rows # <<>>
    /\ analysis.status = "none"
    /\ LET a == analyze_calibration(log_rows)
       IN  analysis' = [a EXCEPT !.recalibrate =
                           a.status = "None" \/ ~RatLeq(a.average, adapt_threshold)]
    /\ UNCHANGED <<proc, script_pc, points, validation_points, done_points, all_errors,
                   validation_errors, error_sum, log_rows, unmeasured, results>>
    /\ UNCHANGED <<tracker_vars, prev_results, bridge_vars, stats_vars, entry_vars, device_vars>>

NextScripts ==
    \/ run_calibration_start
    \/ run_calibration_point
    \/ run_calibration_finish
    \/ run_validation_start
    \/ run_validation_point
    \/ run_validation_finish
    \/ GazeTracker_calibrate_start
    \/ GazeTracker_calibrate_point
    \/ GazeTracker_calibrate_finish
    \/ save_calibration_log
    \/ check_calibration_and_adapt

\* One run of one of the procedures, and the analysis of its log file.
SpecScripts == Init /\ [][NextScripts]_vars

(***************************************************************************)
(* One GazeTracker with the default threshold: calibrated over a short     *)
(* list of targets, or over the nine-point grid of gaze_tracking.py's test *)
(* run and then over the grid again any number of times.                   *)
(***************************************************************************)
GazeTracker_calibrate_grid ==
    /\ \/ script_pc = "idle"
       \/ proc = "GazeTracker.calibrate" /\ script_pc = "returned"
    /\ proc' = "GazeTracker.calibrate"
    /\ points' = NinePointGrid
    /\ script_pc' = "calibration"
    /\ done_points' = 0
    /\ all_errors' = <<>>
    /\ prev_results' = Summary(results)
    /\ results' = NoResults
    /\ UNCHANGED <<validation_points, validation_errors, error_sum, log_rows, unmeasured,
                   analysis>>
    /\ UNCHANGED <<tracker_vars, bridge_vars, stats_vars, entry_vars, device_vars>>

NextQuality ==
    \/ GazeTracker_calibrate_start
    \/ GazeTracker_calibrate_grid
    \/ GazeTracker_calibrate_point
    \/ GazeTracker_calibrate_finish

SpecQuality == Init /\ [][NextQuality]_vars

(***************************************************************************)
(* EyeTracker(win, tracker_type='webgazer') step by step: the wait of      *)
(* _initialize_webgazer for the browser client.  Time is counted in        *)
(* polling intervals: only time.sleep(0.5) takes time, and exactly 0.5 s.  *)
(***************************************************************************)
connection_timeout == 60       \* "connection_timeout = 30  # seconds"
poll_interval == 1             \* "time.sleep(0.5)"

wait_never_expires(t) == FALSE

\* "time.time() - start_time > connection_timeout"
wait_expired(t) == t > connection_timeout

Waiting == wait_pc \in {"polling", "sleeping"}

\* From the call of __init__ to the loop: the import, WebGazerBridge(port)
\* and start(); what they raise goes to the mouse fallback.
initialize_webgazer_start ==
    /\ phase = "new"
    /\ wait_pc = "idle"
    /\ \E outcome \in {"import_fail", "start_fail", "started"} :
         IF outcome = "started"
         THEN /\ tracker' = "bridge"
              /\ bridge_started' = TRUE
              /\ wait_pc' = "polling"
              /\ UNCHANGED <<phase, requested, init_failed, init_error, fallback_entries,
                             tracker_type, has_io, tobii_subscribed, is_recording,
                             gaze_data, closed, last_op, last_raised, last_appended,
                             cal_pc, attempt, cal_attempts, cal_errors, cal_result,
                             cal_success, last_key, validation_level, auto_save_interval,
                             cb_pc, last_backup, prev_backup, last_due, last_sample,
                             last_write>>
              /\ UNCHANGED <<stats_vars, device_vars>>
         ELSE /\ \E hub \in HubOutcomes : EndConstruct("webgazer", TRUE, hub, outcome)
              /\ wait_pc' = "done"
    /\ UNCHANGED <<elapsed, connected>>
    /\ UNCHANGED <<script_vars, entry_vars>>

\* The browser client connects to the bridge.
client_connects ==
    /\ Waiting
    /\ ~connected
    /\ connected' = TRUE
    /\ UNCHANGED <<wait_pc, elapsed>>
    /\ UNCHANGED <<tracker_vars, script_vars, stats_vars, entry_vars, device_vars>>

\* One test of "while not self.tracker.is_connected()" and, inside the
\* loop, of the timeout: the loop ends, TimeoutError goes to the except
\* clause and its _fallback_to_mouse, or the thread goes to sleep.
initialize_webgazer_poll ==
    /\ wait_pc = "polling"
    /\ IF connected
       THEN /\ \E hub \in HubOutcomes : EndConstruct("webgazer", TRUE, hub, "ok")
            /\ wait_pc' = "done"
       ELSE IF wait_expired(elapsed)
       THEN /\ \E hub \in HubOutcomes : EndConstruct("webgazer", TRUE, hub, "timeout")
            /\ wait_pc' = "done"
       ELSE /\ wait_pc' = "sleeping"
            /\ UNCHANGED <<tracker_vars, stats_vars, device_vars>>
    /\ UNCHANGED <<elapsed, connected>>
    /\ UNCHANGED <<script_vars, entry_vars>>

\* time.sleep(0.5) returns.
initialize_webgazer_sleep ==
    /\ wait_pc = "sleeping"
    /\ elapsed' = elapsed + poll_interval
    /\ wait_pc' = "polling"
    /\ UNCHANGED connected
    /\ UNCHANGED <<tracker_vars, script_vars, stats_vars, entry_vars, device_vars>>

NextWebGazer ==
    \/ initialize_webgazer_start
    \/ client_connects
    \/ initialize_webgazer_poll
    \/ initialize_webgazer_sleep

\* The constructing thread keeps running: a test of the loop is followed
\* by its outcome, a sleep returns.  Nothing makes the client connect.
SpecWebGazer ==
    /\ Init
    /\ [][NextWebGazer]_vars
    /\ WF_vars(initialize_webgazer_poll)
    /\ WF_vars(initialize_webgazer_sleep)

(***************************************************************************)
(* Properties.                                                             *)
(***************************************************************************)
\* The fields of the object and of its devices (the history variables left out).
ProgramState ==
    <<tracker_type, tracker, has_io, tobii_subscribed, bridge_started,
      is_recording, gaze_data>>

MainFlowOps == {"calibrate", "start_recording", "stop_recording", "update",
                "get_gaze_position"}

C3_OnlyActiveBackendAppends ==
    (last_op = "tobii_gaze_callback" /\ last_appended) => tracker_type = "tobii"

\* C4: one construction enters the fallback routine at most once.
C4_FallbackAtMostOnce == fallback_entries <= 1

\* C5: a step that makes gaze_data longer starts in a state where
\* is_recording is true.
C5_GrowsOnlyWhileRecording ==
    [][Len(gaze_data') > Len(gaze_data) => is_recording]_vars

\* C6: start_recording() ends with is_recording true and an empty buffer,
\* and a second start_recording() right after the first changes nothing.
C6_StartRecording ==
    [][last_op' = "start_recording" =>
        /\ is_recording'
        /\ gaze_data' = <<>>
        /\ UNCHANGED <<tracker_type, tracker, has_io, tobii_subscribed, bridge_started>>
        /\ (last_op = "start_recording" => ProgramState' = ProgramState)]_vars

C6_Witness ==
    /\ last_op = "start_recording"
    /\ closed = FALSE
    /\ is_recording
    /\ gaze_data = <<>>
    /\ tracker_type = "tobii"

\* C7: stop_recording() ends with is_recording false and gaze_data as it
\* was, and a second stop_recording() right after the first changes nothing.
C7_StopRecording ==
    [][last_op' = "stop_recording" =>
        /\ ~is_recording'
        /\ gaze_data' = gaze_data
        /\ UNCHANGED <<tracker_type, tracker, has_io, tobii_subscribed, bridge_started>>
        /\ (last_op = "stop_recording" => ProgramState' = ProgramState)]_vars

C7_Witness ==
    /\ last_op = "stop_recording"
    /\ ~is_recording
    /\ Len(gaze_data) = 2
    /\ gaze_data[1] # gaze_data[2]

\* C8: after close(), calibrate, start_recording, stop_recording, update
\* and get_gaze_position all raise (and so change nothing).
C8_ClosedTrackerRejects ==
    (closed /\ last_op \in MainFlowOps) => last_raised

\* How far calibrate() is from returning: the loop iterations left, and
\* the position inside the current one.
CalibrateMeasure ==
    3 * (max_attempts - attempt)
      + (CASE cal_pc = "attempt" -> 3 [] cal_pc = "validating" -> 2 [] OTHER -> 1)

C10_AttemptExceptionCaught ==
    [][/\ cal_result' # "raised"
       /\ ~(last_op' = "calibrate" /\ last_raised')
       /\ (cal_errors' > cal_errors =>
             cal_pc' = "prompt_error" /\ cal_attempts' = attempt' /\ attempt' = attempt)
       /\ (cal_pc = "prompt_error" /\ cal_pc' = "attempt" =>
             attempt' = attempt + 1 /\ attempt' <= 3)
       /\ (cal_pc = "prompt_error" /\ attempt = 3 /\ last_op' = "calibrate" =>
             cal_pc' = "idle" /\ cal_result' = "false")]_vars

C10_Witness ==
    /\ cal_pc = "idle"
    /\ cal_result = "false"
    /\ cal_errors = 3

\* C11: when the operator answers escape at calibrate()'s retry/skip prompt,
\* calibrate() returns False in that very step: no further attempt is made
\* and nothing is raised.
C11_EscapeEndsCalibrate ==
    [][(cal_pc \in {"prompt_failed", "prompt_error"} /\ last_key' = "escape")
         => /\ cal_pc' = "idle"
            /\ cal_result' = "false"
            /\ cal_attempts' = cal_attempts
            /\ ~last_raised']_vars

C11_Witness ==
    /\ last_key = "escape"
    /\ cal_pc = "idle"
    /\ cal_result = "false"
    /\ cal_attempts = 1

\* C12 as stated: for a real (non-mouse) backend, calibrate() returns True
\* only when an attempt's backend calibration and its validation succeeded.
C12_TrueOnlyOnSuccess ==
    (cal_pc = "idle" /\ cal_result = "true" /\ tracker_type \in CalibrationBackends)
        => cal_success

\* C13: under validation_level 'strict', a sample with no valid eye or with
\* a left or right pupil diameter outside [min_pupil_size, max_pupil_size]
\* is not appended to gaze_data.
C13_StrictRejects ==
    (validation_level = "strict" /\ last_sample \in {"no_eye", "pupil"})
        => ~last_appended

C13_Witness ==
    /\ validation_level = "strict"
    /\ last_sample = "pupil"
    /\ is_recording
    /\ gaze_data # <<>>
    /\ ~last_appended

\* The main-flow operations that read or write gaze_data.
BufferOps == {"start_recording", "update", "get_gaze_position", "save_data"}

\* C14 as stated: no main-flow operation touches gaze_data while the
\* callback is inside its with-block, holding data_lock.
C14_BufferAccessUnderLock ==
    cb_pc = "locked" => last_op \notin BufferOps

IsPrefix(s, t) == Len(s) <= Len(t) /\ SubSeq(t, 1, Len(s)) = s

\* C15: samples stay in arrival order (a step extends gaze_data at its end
\* or empties it), a backup holds exactly the gaze_data of the moment it is
\* written, and of two backups of one recording the earlier is a prefix of
\* the later.
C15_SnapshotsArePrefixes ==
    /\ [](IsPrefix(prev_backup, last_backup) /\ IsPrefix(last_backup, gaze_data))
    /\ [][/\ (IsPrefix(gaze_data, gaze_data') \/ gaze_data' = <<>>)
           /\ (last_write' = "written" =>
                 /\ last_backup' = gaze_data'
                 /\ prev_backup' = last_backup)]_vars

C15_Witness ==
    /\ last_write = "written"
    /\ prev_backup # <<>>
    /\ Len(last_backup) > Len(prev_backup)

\* C16 as stated: whichever backend is active, a sample recorded with
\* auto_save_interval > 0 and the interval elapsed since the last auto-save
\* has a backup written.
C16_AutoSaveWhenDue ==
    (last_appended /\ is_recording /\ auto_save_interval > 0 /\ last_due)
        => last_write # "none"

\* C17 as stated, for the calibration procedure: a failure writing the log
\* or the results file does not abort run_calibration: it neither raises
\* nor returns before its points were handled.
C17_WriteFailureNeverAborts ==
    proc = "run_calibration" => results.status \notin {"raised", "failed_early"}

\* The procedure has handled all its points (of its first loop) and goes on
\* to the aggregate statistics.
Aggregating ==
    \/ proc = "run_calibration" /\ script_pc \in {"validation", "finish"}
    \/ proc = "run_calibration" /\ results.status = "returned"
    \/ proc = "GazeTracker.calibrate" /\ script_pc = "finish"
    \/ proc = "GazeTracker.calibrate" /\ results.status = "returned"

\* C18 as stated: a calibration run over P has exactly len(P) per-point
\* error entries when the aggregate statistics are computed.
C18_ExactlyLenP ==
    Aggregating => Len(all_errors) = Len(points)

\* C18 amended: a calibration run over P has one error entry for each point
\* whose measurement raised nothing, that is len(P) less the points that
\* failed before their error was collected; GazeTracker.calibrate has no
\* such points and produces exactly len(P) entries.
C18_OneEntryPerMeasuredPoint ==
    /\ Aggregating => Len(all_errors) + unmeasured = Len(points)
    /\ proc = "GazeTracker.calibrate" => unmeasured = 0 /\ Len(all_errors) = done_points
    /\ proc = "run_calibration" /\ script_pc = "calibration"
         => Len(all_errors) + unmeasured = done_points

C18_Witness ==
    /\ proc = "run_calibration"
    /\ results.status = "returned"
    /\ Len(points) = MaxPoints
    /\ unmeasured = 1
    /\ Len(all_errors) = MaxPoints - 1

\* C19 as stated: the average a calibration or validation run reports is
\* the mean of the errors it collected, also when some points failed.
C19_AverageIsMeanOfCollected ==
    (results.status = "returned" /\ all_errors # <<>>)
        => RatEq(results.average, Mean(all_errors))

\* The targets of points whose quadrant, by the signs of x and y, is q:
\* left is x < 0, top is y > 0.
InQuadrant(q, t, y_zero_is_top) ==
    LET top == IF y_zero_is_top THEN t[2] >= 0 ELSE t[2] > 0
        left == t[1] < 0
    IN  CASE q = "top_left"     -> left /\ top
          [] q = "top_right"    -> ~left /\ top
          [] q = "bottom_left"  -> left /\ ~top
          [] OTHER              -> ~left /\ ~top

\* The number of points of the run whose target lies in q.
TargetsIn(q, y_zero_is_top) ==
    Cardinality({i \in 1..Len(points) : InQuadrant(q, points[i], y_zero_is_top)})

\* C20 as stated: every target goes to the quadrant given by the signs of
\* its x and y with zero counted as positive, so that (0,0) is top-right.
C20_ZeroIsPositive ==
    (proc = "GazeTracker.calibrate" /\ results.status = "returned")
        => \A q \in Quadrants : Len(results.quadrant_errors[q]) = TargetsIn(q, TRUE)

\* C20 amended: every target goes to exactly one quadrant by the signs of
\* its x and y, a zero x counting as right and a zero y as bottom: (0,0)
\* and (0.5,-0.5) go to bottom-right, (-0.5,0.5) to top-left.
C20_QuadrantBySign ==
    /\ quadrant(0, 0) = "bottom_right"
    /\ quadrant(-5, 5) = "top_left"
    /\ quadrant(5, -5) = "bottom_right"
    /\ (proc = "GazeTracker.calibrate" /\ results.status = "returned")
         => /\ \A q \in Quadrants :
                 Len(results.quadrant_errors[q]) = TargetsIn(q, FALSE)
            /\ \A i \in 1..Len(points) :
                 \E q \in Quadrants :
                    /\ InQuadrant(q, points[i], FALSE)
                    /\ \E j \in 1..Len(results.quadrant_errors[q]) :
                          results.quadrant_errors[q][j] = all_errors[i]
                    /\ \A r \in Quadrants \ {q} : ~InQuadrant(r, points[i], FALSE)

C20_Witness ==
    /\ proc = "GazeTracker.calibrate"
    /\ results.status = "returned"
    /\ points = << <<0, 0>>, <<-5, 5>> >>
    /\ Len(results.quadrant_errors["bottom_right"]) = 1
    /\ Len(results.quadrant_errors["top_left"]) = 1

TierRank(q) ==
    CASE q = "excellent" -> 3
      [] q = "good" -> 2
      [] q = "fair" -> 1
      [] OTHER -> 0

Evaluated(r) == r.quality # "none"

\* Two calibration results with the same max error and the same
\* percent_above_threshold.
ComparableResults ==
    /\ Evaluated(results)
    /\ Evaluated(prev_results)
    /\ results.max = prev_results.max
    /\ RatEq(results.percent_above, prev_results.percent_above)

\* The bands of evaluate_calibration_quality all of whose limits r meets.
BandsMet(r) ==
    {i \in 1..Len(quality_bands) :
        /\ r.average[1] <= quality_bands[i].avg * r.average[2]
        /\ r.max <= quality_bands[i].max
        /\ r.percent_above[1] <= quality_bands[i].percent_above * r.percent_above[2]}

FirstBandMet(r) ==
    IF BandsMet(r) = {} THEN "poor"
    ELSE quality_bands[CHOOSE i \in BandsMet(r) : \A j \in BandsMet(r) : i <= j].tier

\* C21: of two calibration results with the same max error and the same
\* percent_above_threshold, the one with the strictly smaller average error
\* has the same tier or a better one (excellent > good > fair > poor); and
\* the tier of a result is the first band, from the strictest, all three of
\* whose limits it meets, poor when it meets none.
C21_TierMonotonic ==
    /\ ComparableResults /\ RatLess(results.average, prev_results.average)
         => TierRank(results.quality) >= TierRank(prev_results.quality)
    /\ ComparableResults /\ RatLess(prev_results.average, results.average)
         => TierRank(prev_results.quality) >= TierRank(results.quality)
    /\ Evaluated(results) => results.quality = FirstBandMet(results)

\* The GazeTracker was calibrated twice with the same max error and no
\* point above the threshold; the second, smaller average moved the tier up
\* from good to excellent.
C21_Witness ==
    /\ ComparableResults
    /\ RatLess(results.average, prev_results.average)
    /\ prev_results.quality = "good"
    /\ results.quality = "excellent"

AllZero(errs) == \A i \in 1..Len(errs) : errs[i] = 0

Calibrated == proc = "GazeTracker.calibrate" /\ results.status = "returned"

Clamp0(x) == IF x > 0 THEN x ELSE 0

\* 400 * n times "0.5 * avg_score + 0.3 * max_score + 0.2 * percent_score"
\* for n errors in tenths.
WeightedScore400n(errs) ==
    LET n == Len(errs)
    IN  10 * Clamp0(20 * n - SumSeq(errs)) + 3 * n * Clamp0(40 - MaxSeq(errs))
          + 80 * (n - points_above(errs, calibration_threshold))

\* C22: a calibration over the nine-point grid in which every error is 0
\* ends with average 0, quality excellent and score 1.0, each point having
\* been measured once; and the score of every calibration is the weighted
\* sum 0.5/0.3/0.2 of the three clamped components and lies in [0, 1].
C22_PerfectNinePoint ==
    /\ Calibrated /\ points = NinePointGrid /\ AllZero(all_errors)
         => /\ RatEq(results.average, <<0, 1>>)
            /\ results.quality = "excellent"
            /\ RatEq(results.score, <<1, 1>>)
            /\ Len(all_errors) = Len(NinePointGrid)
            /\ done_points = Len(NinePointGrid)
    /\ Calibrated
         => /\ results.score[1] >= 0
            /\ RatLeq(results.score, 1)
            /\ RatEq(results.score, <<WeightedScore400n(all_errors), 400 * Len(all_errors)>>)

C22_Witness ==
    /\ Calibrated
    /\ points = NinePointGrid
    /\ Len(all_errors) = 9
    /\ AllZero(all_errors)
    /\ results.quality = "excellent"

\* run_validation has handled all its points and written the "Average
\* Error" row: what follows is its verdict.
VerdictDue ==
    /\ proc = "run_validation"
    /\ log_rows # <<>>
    /\ log_rows[Len(log_rows)].kind = "average"

\* C23: a validation passes exactly when its average error is at most
\* validation_threshold, and one that does not pass still ends without
\* raising, reporting the failure together with the numeric average.
C23_VerdictWithoutRaising ==
    VerdictDue
      => /\ results.status = "returned"
         /\ results.average # NaN
         /\ results.success <=> RatLeq(results.average, validation_threshold)

\* The log file of a finished procedure.
LogFinished ==
    \/ proc \in {"run_calibration", "run_validation"} /\ results.status = "returned"
    \/ proc = "GazeTracker.calibrate" /\ script_pc = "saved"

\* The points the procedure went through, in order.
HandledPoints == points \o validation_points

\* The fields of a line from PointIndex on.
PointFields(row) == SubSeq(row.cols, Len(row.cols) - 5, Len(row.cols))

\* Line k after the header is the line of the k-th point: a data row, or a
\* row with ERROR in the two gaze columns.
RowOfPoint(row, pt) ==
    /\ Len(row.cols) >= 6
    /\ PointFields(row)[2] = Num(pt[1])
    /\ PointFields(row)[3] = Num(pt[2])
    /\ \/ row.kind = "data" /\ PointFields(row)[4].numeric /\ PointFields(row)[5].numeric
       \/ row.kind = "ERROR" /\ PointFields(row)[4] = Text("ERROR")
                             /\ PointFields(row)[5] = Text("ERROR")

\* C24: a finished log file is the header "PointIndex, ConfigX, ConfigY,
\* GazeX, GazeY, Error" followed by exactly one line per point, in the order
\* of the points: the point's data row, or its row with ERROR in the gaze
\* columns.
C24_HeaderThenOneRowPerPoint ==
    LogFinished
      => /\ log_rows[1].cols = ColumnNames
         /\ Len(log_rows) = 1 + Len(HandledPoints)
         /\ \A k \in 1..Len(HandledPoints) :
              k + 1 <= Len(log_rows) => RowOfPoint(log_rows[k + 1], HandledPoints[k])

\* C25 as stated: while _initialize_webgazer waits for the client, no more
\* than the connection timeout has elapsed.
C25_WaitsAtMostTimeout == Waiting => elapsed <= connection_timeout

\* How the construction ended once the wait is over.
WaitOutcome ==
    wait_pc = "done"
      => /\ phase \in {"ready", "failed"}
         /\ connected => phase = "ready" /\ tracker_type = "webgazer"
         /\ ~connected
              => /\ fallback_entries >= 1
                 /\ phase = "ready" => tracker_type = "mouse" /\ tracker = "mouse"
                 /\ phase = "failed" => init_error = "RuntimeError"

\* C25 (amended): the wait of _initialize_webgazer always ends.  It tests
\* the connection every 0.5 s and gives up at the first test made more than
\* the 30 s timeout after it began, so it lasts at most the timeout plus one
\* polling interval; a client found connected at a test ends it with the
\* WebGazer backend, and without one the TimeoutError goes to the mouse
\* fallback, after which construction returns a mouse tracker or raises the
\* fallback's RuntimeError.
C25_WaitEnds ==
    /\ [](Waiting => elapsed <= connection_timeout + poll_interval)
    /\ []WaitOutcome
    /\ (Waiting ~> wait_pc = "done")

\* No client connected, the wait timed out one polling interval after the
\* timeout, and construction returned a mouse tracker.
C25_Witness ==
    /\ wait_pc = "done"
    /\ ~connected
    /\ elapsed = connection_timeout + poll_interval
    /\ phase = "ready"
    /\ tracker_type = "mouse"
    /\ fallback_entries = 1

\* The Error values of the data rows of a log file, in order.
RECURSIVE WrittenErrors(_)
WrittenErrors(rows) ==
    IF rows = <<>> THEN <<>>
    ELSE LET rest == WrittenErrors(Tail(rows))
         IN  IF rows[1].kind = "data"
             THEN <<rows[1].cols[Len(rows[1].cols)].value>> \o rest
             ELSE rest

\* A log file written by the calibration code has been analysed.
CalibrationLogAnalysed ==
    /\ proc \in {"run_calibration", "GazeTracker.calibrate"}
    /\ analysis.status # "none"

\* C26: analyze_calibration on a log file written by run_calibration or by
\* save_calibration_log returns as errors the Error values that were
\* written, in order, the rows of failed points skipped, and as average
\* their mean (None when no point was measured).
C26_AnalysisReturnsWrittenErrors ==
    CalibrationLogAnalysed
      => IF WrittenErrors(log_rows) = <<>> THEN analysis.status = "None"
         ELSE /\ analysis.status = "analysed"
              /\ analysis.errors = WrittenErrors(log_rows)
              /\ RatEq(analysis.average, Mean(WrittenErrors(log_rows)))
(***************************************************************************)
(* C27                                                                     *)
(***************************************************************************)
\* A step that is the with-block of the gaze callback.
CallbackHandles == cb_pc = "locked" /\ cb_pc' = "idle"

\* The sample of that step is one the strict checks reject: no valid eye, a
\* pupil outside the limits, or a movement faster than max_velocity.
Rejected == last_sample' \in {"no_eye", "pupil"} \/ last_fast'

CountedAsDropped ==
    dropped_samples' = dropped_samples + 1 /\ sample_count' = sample_count

CountedAsSample ==
    sample_count' = sample_count + 1 /\ dropped_samples' = dropped_samples

\* C27: under strict validation a callback that rejects its sample (no valid
\* eye, pupil out of bounds, velocity above max_velocity) adds exactly 1 to
\* dropped_samples and leaves gaze_data, last_valid_gaze, last_timestamp and
\* sample_count as they were; and every callback that handles a sample
\* increments exactly one of sample_count and dropped_samples.
C27_RejectedSampleCounted ==
    [][CallbackHandles =>
         /\ (validation_level = "strict" /\ Rejected) =>
               /\ CountedAsDropped
               /\ UNCHANGED <<gaze_data, last_valid_gaze, last_timestamp, sample_count>>
         /\ (CountedAsDropped \/ CountedAsSample)
         /\ ~(CountedAsDropped /\ CountedAsSample)]_vars

\* A strict tracker has kept one sample and dropped the next one for its
\* velocity.
C27_Witness ==
    /\ validation_level = "strict"
    /\ last_op = "tobii_gaze_callback"
    /\ cb_pc = "idle"
    /\ last_fast
    /\ last_sample = "ok"
    /\ ~last_appended
    /\ sample_count = 1
    /\ dropped_samples = 1
    /\ Len(gaze_data) = 1

(***************************************************************************)
(* C28                                                                     *)
(***************************************************************************)
\* stop_recording() has returned and start_recording() has not been called
\* since, while a callback that passed its test of is_recording before the
\* stop has still to run its with-block.
StoppedWithCallbackPending == ~is_recording /\ cb_pc = "locked"

\* C28: once stop_recording() has returned, the gaze callback appends no
\* sample to gaze_data, however its invocation (the test of is_recording,
\* then the with-block under data_lock) interleaves with stop_recording.
C28_NoAppendAfterStop ==
    [][(StoppedWithCallbackPending /\ CallbackHandles) => gaze_data' = gaze_data]_vars

(***************************************************************************)
(* C29                                                                     *)
(***************************************************************************)
\* A step in which a calibrate() that made at least one attempt returns or
\* raises to its caller.
CalibrateReturns == cal_pc # "idle" /\ cal_pc' = "idle" /\ last_op' = "calibrate"

\* C29: calibrate() has no effect on the recording session: when it returns,
\* on any path, is_recording and gaze_data are what they were at the call.
C29_CalibrateKeepsSession ==
    [][CalibrateReturns =>
         (is_recording' = entry_recording /\ gaze_data' = entry_gaze_data)]_vars

(***************************************************************************)
(* C30                                                                     *)
(***************************************************************************)
\* A step that is one _calibrate_tobii call, up to its return.
TobiiAttempt ==
    cal_pc = "attempt" /\ tracker_type = "tobii" /\ cal_attempts' = cal_attempts + 1

\* C30: a Tobii calibration attempt that enters the device's calibration
\* mode leaves it again before it returns, on every path: an attempt that
\* begins with the device out of calibration mode ends with it out.
C30_AttemptLeavesCalibrationMode ==
    [][(TobiiAttempt /\ ~calibration_mode) => ~calibration_mode']_vars
====
